---------------------------- MODULE Spec2Model ----------------------------
(***************************************************************************)
(* Model of the radial timeline layout of the annual wheel                 *)
(* (teams-app/src/components/AnnualWheel.svelte and the helpers it         *)
(* imports from the types module).                                         *)
(*                                                                         *)
(* Representation.                                                         *)
(*  - A Date is an integer number of 20-minute ticks of local time since   *)
(*    1970-01-01 00:00 (the code's milliseconds, at a resolution of        *)
(*    TicksPerDay ticks per day; time zones and DST are not modelled).     *)
(*  - An angle is an integer number of 1/AngleScale degrees.  With         *)
(*    72 ticks per day and 146 units per degree one tick is exactly two    *)
(*    angle units, so dateToAngle and the midpoint of two angles are exact.*)
(*  - A rotation is an integer number of 1/(AngleScale*RotScale) degrees,  *)
(*    so that the factor 0.85 = 17/20 is exact.                            *)
(*  - A radius is a JavaScript number restricted to the values the radius  *)
(*    arithmetic can produce: an exact rational, +/-Infinity or NaN.       *)
(***************************************************************************)
EXTENDS Integers, Sequences, FiniteSets, TLC

VARIABLES
    activities,             \* prop: Activity[]
    layers,                 \* prop: Layer[]
    scopeFilters,           \* prop: Record<layerId, boolean> (a partial map)
    highlightedActivityId,  \* prop: string | null
    isMobileView,           \* $state, set by checkMobile
    today,                  \* const today = new Date(), captured at creation
    targetRotation,         \* $state, written by the rotation effect
    rotationOffset          \* $state, copied from targetRotation

vars == <<activities, layers, scopeFilters, highlightedActivityId,
          isMobileView, today, targetRotation, rotationOffset>>

---------------------------------------------------------------------------
(* Bounds of the model *)

MaxActivities == 4

\* number of days over which the day of construction ranges
MaxTickDays == 380

\* number of later periods of MaxTickDays days whose dates are checked too
MaxWeekPeriods == 28

---------------------------------------------------------------------------
(* Units *)

TicksPerDay == 72
AngleScale == 146
RotScale == 20

Deg(n) == n * AngleScale

null == "null"

Abs(x) == IF x < 0 THEN -x ELSE x
Sign(x) == IF x < 0 THEN -1 ELSE IF x > 0 THEN 1 ELSE 0
MinInt(a, b) == IF a <= b THEN a ELSE b

\* ToIntegerOrInfinity applied to half/2: truncation toward zero
TruncHalf(twice) == IF twice >= 0 THEN twice \div 2 ELSE -((-twice) \div 2)

---------------------------------------------------------------------------
(* Calendar: the Date constructor and getters (proleptic Gregorian)        *)

\* days since 1970-01-01 of the civil date y-m-d (m is 1..12)
DaysFromCivil(y, m, d) ==
    LET yy  == IF m <= 2 THEN y - 1 ELSE y
        era == yy \div 400
        yoe == yy - era * 400
        mp  == IF m > 2 THEN m - 3 ELSE m + 9
        doy == (153 * mp + 2) \div 5 + d - 1
        doe == yoe * 365 + yoe \div 4 - yoe \div 100 + doy
    IN era * 146097 + doe - 719468

\* [y, m, d] of a day number
CivilFromDays(z0) ==
    LET z   == z0 + 719468
        era == z \div 146097
        doe == z - era * 146097
        yoe == (doe - doe \div 1460 + doe \div 36524 - doe \div 146096) \div 365
        doy == doe - (365 * yoe + yoe \div 4 - yoe \div 100)
        mp  == (5 * doy + 2) \div 153
        d   == doy - (153 * mp + 2) \div 5 + 1
        m   == IF mp < 10 THEN mp + 3 ELSE mp - 9
        y   == yoe + era * 400 + (IF m <= 2 THEN 1 ELSE 0)
    IN [y |-> y, m |-> m, d |-> d]

\* new Date(y, m-1, d, h, mi)
MakeDate(y, m, d, h, mi) ==
    DaysFromCivil(y, m, d) * TicksPerDay + (h * 60 + mi) \div 20

DayOf(date) == date \div TicksPerDay
TimeWithinDay(date) == date % TicksPerDay
getDate(date) == CivilFromDays(DayOf(date)).d
getMonth(date) == CivilFromDays(DayOf(date)).m - 1
getFullYear(date) == CivilFromDays(DayOf(date)).y

\* 0 = Sunday .. 6 = Saturday (1970-01-01 was a Thursday)
getDay(date) == (DayOf(date) + 4) % 7

\* Math.ceil(a / b) for b > 0
CeilDiv(a, b) == -((-a) \div b)

\* mutant: weeks counted from the date itself, not from its Thursday
getWeekNumber_NoThursday(date) ==
    CeilDiv(DayOf(date) - DaysFromCivil(getFullYear(date), 1, 1) + 1, 7)

\* sharing.ts getWeekNumber: the date is moved to the Thursday of its week,
\* and the weeks are counted from 1 January of the Thursday's year
getWeekNumber(date) ==
    LET dayNum == IF getDay(date) = 0 THEN 7 ELSE getDay(date)
        d == DayOf(date) + 4 - dayNum
        yearStart == DaysFromCivil(CivilFromDays(d).y, 1, 1)
    IN CeilDiv(d - yearStart + 1, 7)

\* date.setDate(getDate() + twiceDelta/2): MakeDay truncates the day number
\* toward zero and keeps month, year and time within the day
setDateHalf(date, twiceDelta) ==
    LET c  == CivilFromDays(DayOf(date))
        dt == TruncHalf(2 * c.d + twiceDelta)
    IN (DaysFromCivil(c.y, c.m, 1) + dt - 1) * TicksPerDay + TimeWithinDay(date)

---------------------------------------------------------------------------
(* JavaScript numbers, as far as the radius arithmetic needs them          *)

Num(n, d) == [k |-> "fin", n |-> n, d |-> d]       \* n/d, d > 0
IntNum(i) == Num(i, 1)
NaN == [k |-> "nan", n |-> 0, d |-> 1]
Inf(sgn) == [k |-> "inf", n |-> sgn, d |-> 1]      \* +Infinity / -Infinity

IsFinite(a) == a.k = "fin"
IsNaN(a) == a.k = "nan"

\* a / b
JsDiv(a, b) ==
    IF a.k = "nan" \/ b.k = "nan" THEN NaN
    ELSE IF a.k = "fin" /\ b.k = "fin"
         THEN IF b.n = 0
              THEN IF a.n = 0 THEN NaN ELSE Inf(Sign(a.n))
              ELSE Num(a.n * b.d * Sign(b.n), a.d * Abs(b.n))
    ELSE IF a.k = "inf" /\ b.k = "inf" THEN NaN
    ELSE IF a.k = "inf" THEN Inf(a.n * (IF b.n < 0 THEN -1 ELSE 1))
    ELSE IntNum(0)

\* a * b
JsMul(a, b) ==
    IF a.k = "nan" \/ b.k = "nan" THEN NaN
    ELSE IF a.k = "fin" /\ b.k = "fin" THEN Num(a.n * b.n, a.d * b.d)
    ELSE IF a.n = 0 \/ b.n = 0 THEN NaN
    ELSE Inf(Sign(a.n) * Sign(b.n))

\* a + b
JsAdd(a, b) ==
    IF a.k = "nan" \/ b.k = "nan" THEN NaN
    ELSE IF a.k = "fin" /\ b.k = "fin" THEN Num(a.n * b.d + b.n * a.d, a.d * b.d)
    ELSE IF a.k = "inf" /\ b.k = "inf"
         THEN IF a.n = b.n THEN a ELSE NaN
    ELSE IF a.k = "inf" THEN a ELSE b

\* a - b
JsSub(a, b) == JsAdd(a, IF b.k = "nan" THEN NaN ELSE [b EXCEPT !.n = -b.n])

\* comparisons of finite numbers
NumEq(a, b) == a.k = "fin" /\ b.k = "fin" /\ a.n * b.d = b.n * a.d
NumLeq(a, b) == a.k = "fin" /\ b.k = "fin" /\ a.n * b.d <= b.n * a.d
NumLt(a, b) == a.k = "fin" /\ b.k = "fin" /\ a.n * b.d < b.n * a.d

---------------------------------------------------------------------------
(* Constants of the wheel *)

CENTER_X == 300
CENTER_Y == 300
OUTER_RADIUS == 280
DAY_TICK_OUTER == OUTER_RADIUS
DAY_TICK_INNER == OUTER_RADIUS - 8
WEEK_RING_OUTER == DAY_TICK_INNER - 2
WEEK_RING_INNER == WEEK_RING_OUTER - 20
ACTIVITY_AREA_OUTER == WEEK_RING_INNER - 5
INNER_RADIUS == 60
MONTH_TICK_OUTER == OUTER_RADIUS + 12
MONTH_LABEL_RADIUS == OUTER_RADIUS + 30
FULL_VIEW_DAYS == 365
maxSubLayers == 3
minArcDegrees == 3

---------------------------------------------------------------------------
(* The year window *)

\* mutant: the half year is halved once more
fullYearStartDate_HalvedTwice == setDateHalf(today, -(FULL_VIEW_DAYS \div 2))

fullYearStartDate == setDateHalf(today, -FULL_VIEW_DAYS)
fullYearEndDate == setDateHalf(today, FULL_VIEW_DAYS)

\* degreesPerDay = 360 / FULL_VIEW_DAYS, in angle units (exact: 144)
degreesPerDay == (360 * AngleScale) \div FULL_VIEW_DAYS

\* mutant: the difference is taken the other way round
dateToAngle_Reversed(date) ==
    ((today - date) * degreesPerDay) \div TicksPerDay

\* mutant: angles are measured from the start of the window
dateToAngle_FromStart(date) ==
    ((date - fullYearStartDate) * degreesPerDay) \div TicksPerDay

\* daysDiff * degreesPerDay, daysDiff = (date - today) / one day (exact)
dateToAngle(date) == ((date - today) * degreesPerDay) \div TicksPerDay

---------------------------------------------------------------------------
(* Layers *)

\* insertion of x behind every element whose ringIndex is not larger:
\* the position a stable sort by ringIndex gives it
InsertByRing(sorted, x) ==
    SelectSeq(sorted, LAMBDA e : e.ringIndex <= x.ringIndex) \o <<x>> \o
    SelectSeq(sorted, LAMBDA e : e.ringIndex > x.ringIndex)

RECURSIVE SortByRing(_)
\* Array.prototype.sort((a, b) => a.ringIndex - b.ringIndex), which is stable
SortByRing(s) ==
    IF s = << >> THEN << >>
    ELSE InsertByRing(SortByRing(SubSeq(s, 1, Len(s) - 1)), s[Len(s)])

layersToScopeConfigs(ls) ==
    LET visible == SelectSeq(ls, LAMBDA l : l.isVisible)
        sorted == SortByRing(visible)
    IN [i \in 1..Len(sorted) |->
          [id |-> sorted[i].id, ringIndex |-> sorted[i].ringIndex]]

scopeConfigs == layersToScopeConfigs(layers)

getScopeConfigById(scopeId) ==
    LET found == SelectSeq(scopeConfigs, LAMBDA s : s.id = scopeId)
    IN IF found # << >> THEN found[1] ELSE [id |-> scopeId, ringIndex |-> 0]

createDefaultScopeFilters(ls) ==
    [id \in {ls[i].id : i \in 1..Len(ls)} |->
        LET last == CHOOSE i \in 1..Len(ls) :
                      /\ ls[i].id = id
                      /\ \A j \in (i+1)..Len(ls) : ls[j].id # id
        IN ls[last].isVisible]

---------------------------------------------------------------------------
(* Activities: filtering and ordering *)

\* mutant: a layer missing from scopeFilters counts as enabled
ScopeEnabled_DefaultTrue(scope) ==
    scope \notin DOMAIN scopeFilters \/ scopeFilters[scope]

\* scopeFilters[a.scope] is truthy
ScopeEnabled(scope) == scope \in DOMAIN scopeFilters /\ scopeFilters[scope]

filteredActivities == SelectSeq(activities, LAMBDA a : ScopeEnabled(a.scope))

\* mutant: the comparator orders by ring only
CompareActivities_RingOnly(a, b) ==
    getScopeConfigById(a.scope).ringIndex - getScopeConfigById(b.scope).ringIndex

\* the comparator of sortedActivities
CompareActivities(a, b) ==
    LET scopeA == getScopeConfigById(a.scope)
        scopeB == getScopeConfigById(b.scope)
    IN IF scopeA.ringIndex # scopeB.ringIndex
       THEN scopeA.ringIndex - scopeB.ringIndex
       ELSE a.startDate - b.startDate

\* mutant: an unstable sort, equal elements end up in reverse input order
InsertActivity_Unstable(sorted, x) ==
    SelectSeq(sorted, LAMBDA e : CompareActivities(e, x) < 0) \o <<x>> \o
    SelectSeq(sorted, LAMBDA e : CompareActivities(e, x) >= 0)

InsertActivity(sorted, x) ==
    SelectSeq(sorted, LAMBDA e : CompareActivities(e, x) <= 0) \o <<x>> \o
    SelectSeq(sorted, LAMBDA e : CompareActivities(e, x) > 0)

RECURSIVE SortActivities(_)
SortActivities(s) ==
    IF s = << >> THEN << >>
    ELSE InsertActivity(SortActivities(SubSeq(s, 1, Len(s) - 1)), s[Len(s)])

sortedActivities == SortActivities(filteredActivities)

SCOPE_RINGS == Len(layers)

---------------------------------------------------------------------------
(* Ring backgrounds *)

totalRingSpace == ACTIVITY_AREA_OUTER - INNER_RADIUS - 10

\* layers.length || 1
LengthOrOne(ls) == IF Len(ls) = 0 THEN 1 ELSE Len(ls)

scopeRingBackgrounds ==
    LET scopeRingThickness == JsDiv(IntNum(totalRingSpace), IntNum(LengthOrOne(layers)))
        sortedLayers == SortByRing(layers)
    IN [index \in 1..Len(sortedLayers) |->
          LET innerR == JsAdd(IntNum(INNER_RADIUS + 10),
                              JsMul(IntNum(index - 1), scopeRingThickness))
              outerR == JsSub(JsAdd(innerR, scopeRingThickness), IntNum(1))
          IN [id |-> sortedLayers[index].id,
              innerRadius |-> innerR,
              outerRadius |-> outerR]]

---------------------------------------------------------------------------
(* Sub-lane allocation: activityLayers *)

\* assigned.some(a => a.subLayer === l && activity.startDate <= a.activity.endDate
\*                    && activity.endDate >= a.activity.startDate)
OverlapsInLane(activity, assigned, l) ==
    \E i \in 1..Len(assigned) :
        /\ assigned[i].subLayer = l
        /\ activity.startDate <= assigned[i].activity.endDate
        /\ activity.endDate >= assigned[i].activity.startDate

RECURSIVE LaneLoop(_, _, _)
\* the value of subLayer when the for-loop, entered at l, is left
LaneLoop(activity, assigned, l) ==
    IF l < maxSubLayers
    THEN IF ~OverlapsInLane(activity, assigned, l)
         THEN l
         ELSE LaneLoop(activity, assigned, l + 1)
    ELSE l

FindSubLayer(activity, assigned) ==
    MinInt(LaneLoop(activity, assigned, 0), maxSubLayers - 1)

\* Map.prototype.set
MapSet(map, key, value) ==
    [x \in DOMAIN map \cup {key} |-> IF x = key THEN value ELSE map[x]]

RECURSIVE AssignScope(_, _, _, _)
\* scopeActivities.forEach(...) from index i on; st = [assigned, layerMap]
AssignScope(scopeConfig, scopeActivities, i, st) ==
    IF i > Len(scopeActivities) THEN st
    ELSE LET activity == scopeActivities[i]
             subLayer == FindSubLayer(activity, st.assigned)
         IN AssignScope(scopeConfig, scopeActivities, i + 1,
               [assigned |-> Append(st.assigned,
                                    [activity |-> activity, subLayer |-> subLayer]),
                layerMap |-> MapSet(st.layerMap, activity.id,
                                    [scopeRing |-> scopeConfig.ringIndex,
                                     subLayer |-> subLayer])])

RECURSIVE AssignAll(_, _)
\* scopeConfigs.forEach(...) from index c on
AssignAll(c, layerMap) ==
    IF c > Len(scopeConfigs) THEN layerMap
    ELSE LET scopeConfig == scopeConfigs[c]
             scopeActivities ==
                 SelectSeq(sortedActivities, LAMBDA a : a.scope = scopeConfig.id)
         IN AssignAll(c + 1,
               AssignScope(scopeConfig, scopeActivities, 1,
                           [assigned |-> << >>, layerMap |-> layerMap]).layerMap)

activityLayers == AssignAll(1, << >>)

---------------------------------------------------------------------------
(* Activity arcs: activityArcs *)

\* activity.endDate < start || activity.startDate > end
OutsideWindow(activity) ==
    activity.endDate < fullYearStartDate \/ activity.startDate > fullYearEndDate

\* layers.get(activity.id) || { scopeRing: 0, subLayer: 0 }
LayerInfo(layerMap, activity) ==
    IF activity.id \in DOMAIN layerMap
    THEN layerMap[activity.id]
    ELSE [scopeRing |-> 0, subLayer |-> 0]

\* mutant: no minimum-arc adjustment
EnsureMinArc_NoWiden(actStartAngle, actEndAngle) ==
    [startAngle |-> actStartAngle, endAngle |-> actEndAngle]

\* the minimum-arc adjustment of [startAngle, endAngle]
EnsureMinArc(actStartAngle, actEndAngle) ==
    IF actEndAngle - actStartAngle < Deg(minArcDegrees)
    THEN LET midAngle == (actStartAngle + actEndAngle) \div 2
         IN [startAngle |-> midAngle - Deg(minArcDegrees) \div 2,
             endAngle |-> midAngle + Deg(minArcDegrees) \div 2]
    ELSE [startAngle |-> actStartAngle, endAngle |-> actEndAngle]

\* mutant: no gap between sub-lanes
ArcOf_NoGap(layerMap, activity) ==
    LET scopeRingThickness == JsDiv(IntNum(totalRingSpace), IntNum(SCOPE_RINGS))
        subLayerThickness == JsDiv(scopeRingThickness, IntNum(3))
        layerInfo == LayerInfo(layerMap, activity)
        scopeRingStart == JsAdd(IntNum(INNER_RADIUS + 10),
                                JsMul(IntNum(layerInfo.scopeRing), scopeRingThickness))
        innerR == JsAdd(scopeRingStart,
                        JsMul(IntNum(layerInfo.subLayer), subLayerThickness))
        outerR == JsAdd(innerR, subLayerThickness)
        span == EnsureMinArc(dateToAngle(activity.startDate),
                             dateToAngle(activity.endDate))
    IN [activity |-> activity,
        scopeRing |-> layerInfo.scopeRing,
        subLayer |-> layerInfo.subLayer,
        startAngle |-> span.startAngle,
        endAngle |-> span.endAngle,
        innerRadius |-> innerR,
        outerRadius |-> outerR]

ArcOf(layerMap, activity) ==
    LET scopeRingThickness == JsDiv(IntNum(totalRingSpace), IntNum(SCOPE_RINGS))
        subLayerThickness == JsDiv(scopeRingThickness, IntNum(3))
        layerInfo == LayerInfo(layerMap, activity)
        scopeRingStart == JsAdd(IntNum(INNER_RADIUS + 10),
                                JsMul(IntNum(layerInfo.scopeRing), scopeRingThickness))
        innerR == JsAdd(scopeRingStart,
                        JsMul(IntNum(layerInfo.subLayer), subLayerThickness))
        outerR == JsSub(JsAdd(innerR, subLayerThickness), IntNum(2))
        span == EnsureMinArc(dateToAngle(activity.startDate),
                             dateToAngle(activity.endDate))
    IN [activity |-> activity,
        scopeRing |-> layerInfo.scopeRing,
        subLayer |-> layerInfo.subLayer,
        startAngle |-> span.startAngle,
        endAngle |-> span.endAngle,
        innerRadius |-> innerR,
        outerRadius |-> outerR]

activityArcs ==
    LET layerMap == activityLayers
        kept == SelectSeq(sortedActivities, LAMBDA a : ~OutsideWindow(a))
    IN [i \in 1..Len(kept) |-> ArcOf(layerMap, kept[i])]

---------------------------------------------------------------------------
(* The arrays of a layout pass. Array.prototype.sort sorts the array it is  *)
(* called on; filter and the spread [...a] make a new array. A heap maps    *)
(* the name of an array to its elements.                                    *)

\* heap after "dst = heap[src].filter(e => e is one of kept)"
ArrayFilter(heap, src, dst, kept) ==
    (dst :> SelectSeq(heap[src], LAMBDA e : e \in kept)) @@ heap

\* mutant: no copy is made, the result is the array itself
ArraySpread_Alias(heap, src, dst) == [heap |-> heap, ref |-> src]

\* "[...heap[src]]": a new array dst with the same elements
ArraySpread(heap, src, dst) == [heap |-> (dst :> heap[src]) @@ heap, ref |-> dst]

\* heap after "heap[ref].sort(compare)", compare being the comparison by
\* ringIndex or the one by startDate
ArraySort(heap, ref, compare) ==
    [heap EXCEPT ![ref] = IF compare = "ringIndex" THEN SortByRing(heap[ref])
                          ELSE SortActivities(heap[ref])]

\* the heap after the derivations of one pass, from the props
LayoutPass ==
    LET props == ("activities" :> activities) @@ ("layers" :> layers)
        \* scopeConfigs: layers.filter(l => l.isVisible).sort(...)
        h1 == ArraySort(ArrayFilter(props, "layers", "scopeConfigs",
                                    {layers[i] : i \in {j \in 1..Len(layers) :
                                                           layers[j].isVisible}}),
                        "scopeConfigs", "ringIndex")
        \* filteredActivities: activities.filter(...)
        h2 == ArrayFilter(h1, "activities", "filteredActivities",
                          {activities[i] : i \in {j \in 1..Len(activities) :
                                              ScopeEnabled(activities[j].scope)}})
        \* sortedActivities: [...filteredActivities].sort(...)
        c3 == ArraySpread(h2, "filteredActivities", "sortedActivities")
        h3 == ArraySort(c3.heap, c3.ref, "startDate")
        \* scopeRingBackgrounds: sortedLayers = [...layers].sort(...)
        c4 == ArraySpread(h3, "layers", "sortedLayers")
        h4 == ArraySort(c4.heap, c4.ref, "ringIndex")
    IN [heap |-> h4, sortedActivities |-> c3.ref, sortedLayers |-> c4.ref]

---------------------------------------------------------------------------
(* Focus rotation: the effect that writes targetRotation *)

visibleRange(mobile) == IF mobile THEN 70 ELSE 90

\* mutant: the gentler factor on mobile, the full one on desktop
rotationFactor_Swapped(mobile) == IF mobile THEN 17 ELSE 20

\* rotationFactor times RotScale: 1.0 on mobile, 0.85 on desktop
rotationFactor(mobile) == IF mobile THEN 20 ELSE 17

\* mutant: the boundary of the visible range counts as outside
OutsideVisibleRange_Inclusive(midAngle, mobile) ==
    Abs(midAngle) >= Deg(visibleRange(mobile))

OutsideVisibleRange(midAngle, mobile) ==
    Abs(midAngle) > Deg(visibleRange(mobile))

\* mutant: the wheel is turned the wrong way
RotationEffect_NoNegate(hid, acts, mobile) ==
    IF hid = null THEN 0
    ELSE LET found == SelectSeq(acts, LAMBDA a : a.id = hid)
         IN IF found = << >> THEN 0
            ELSE LET actStartAngle == dateToAngle(found[1].startDate)
                     actEndAngle == dateToAngle(found[1].endDate)
                     midAngle == (actStartAngle + actEndAngle) \div 2
                 IN IF OutsideVisibleRange(midAngle, mobile)
                    THEN midAngle * rotationFactor(mobile)
                    ELSE 0

RotationEffect(hid, acts, mobile) ==
    IF hid = null THEN 0
    ELSE LET found == SelectSeq(acts, LAMBDA a : a.id = hid)
         IN IF found = << >> THEN 0
            ELSE LET actStartAngle == dateToAngle(found[1].startDate)
                     actEndAngle == dateToAngle(found[1].endDate)
                     midAngle == (actStartAngle + actEndAngle) \div 2
                 IN IF OutsideVisibleRange(midAngle, mobile)
                    THEN -(midAngle * rotationFactor(mobile))
                    ELSE 0

\* mutant: only the first read of the effect is tracked
EffectReads_FirstReadOnly(hid, acts) == {"highlightedActivityId"}

\* the signals the effect read in its last run; it runs again only when one
\* of them changes (the early returns leave the later reads untracked)
EffectReads(hid, acts) ==
    IF hid = null THEN {"highlightedActivityId"}
    ELSE IF SelectSeq(acts, LAMBDA a : a.id = hid) = << >>
         THEN {"highlightedActivityId", "activities"}
         ELSE {"highlightedActivityId", "activities", "isMobileView"}

---------------------------------------------------------------------------
(* Viewport: the viewBox of the svg element *)

\* mutant: the compact window is centred vertically on the wheel as well
mobileViewBox_Centred ==
    LET viewSize == (680 * 4) \div 5
    IN [x |-> CENTER_X - viewSize \div 2, y |-> CENTER_Y - viewSize \div 2,
        width |-> viewSize, height |-> viewSize]

\* zoom = 1.25 = 5/4, viewSize = 680 / zoom (exact: 544)
mobileViewBox ==
    LET viewSize == (680 * 4) \div 5
    IN [x |-> CENTER_X - viewSize \div 2, y |-> -20,
        width |-> viewSize, height |-> viewSize]

\* viewBox={isMobileView ? mobileViewBox() : "-40 -40 680 680"}
viewBox ==
    IF isMobileView THEN mobileViewBox
    ELSE [x |-> -40, y |-> -40, width |-> 680, height |-> 680]

\* polarToCartesian at the angles whose sine and cosine are 0, 1 or -1
\* (angle 0 is the top of the wheel)
polarToCartesian(angle, radius) ==
    CASE angle % Deg(360) = 0 -> [x |-> CENTER_X, y |-> CENTER_Y - radius]
      [] angle % Deg(360) = Deg(90) -> [x |-> CENTER_X + radius, y |-> CENTER_Y]
      [] angle % Deg(360) = Deg(180) -> [x |-> CENTER_X, y |-> CENTER_Y + radius]
      [] angle % Deg(360) = Deg(270) -> [x |-> CENTER_X - radius, y |-> CENTER_Y]

---------------------------------------------------------------------------
(* Tick generators: dayMarkers, monthMarkers, todayMarker *)

\* the dates visited by
\*   while (currentDate <= end) { ...; currentDate.setDate(getDate() + step) }
LoopDates(start, end, step) ==
    IF start > end THEN << >>
    ELSE [k \in 1..((end - start) \div (step * TicksPerDay) + 1) |->
             start + (k - 1) * step * TicksPerDay]

\* mutant: today gets a tick only when the other two conditions give it one
ShowDayTick_NoToday(currentDate) ==
    getDate(currentDate) = 1 \/ getDate(currentDate) % 5 = 0

\* isMonthStart || isToday || currentDate.getDate() % 5 === 0
ShowDayTick(currentDate) ==
    \/ getDate(currentDate) = 1
    \/ DayOf(currentDate) = DayOf(today)
    \/ getDate(currentDate) % 5 = 0

dayMarkers ==
    LET visited == LoopDates(fullYearStartDate, fullYearEndDate, 1)
        shown == SelectSeq(visited, ShowDayTick)
    IN [i \in 1..Len(shown) |->
           [angle |-> dateToAngle(shown[i]),
            isMonthStart |-> getDate(shown[i]) = 1,
            isToday |-> DayOf(shown[i]) = DayOf(today)]]

\* currentDate.setMonth(currentDate.getMonth() + 1)
setMonthNext(date) ==
    LET c == CivilFromDays(DayOf(date))
        first == IF c.m = 12 THEN DaysFromCivil(c.y + 1, 1, 1)
                 ELSE DaysFromCivil(c.y, c.m + 1, 1)
    IN (first + c.d - 1) * TicksPerDay + TimeWithinDay(date)

\* the remainder operator of JavaScript: the sign of the dividend
JsRem(a, b) == Sign(a) * (Abs(a) % b)

\* mutant: labels are never flipped
LabelRotation_NoFlip(angle) == angle

\* the label rotation: flipped in the bottom half of the wheel
LabelRotation(angle) ==
    LET normalizedAngle == (JsRem(angle, Deg(360)) + Deg(360)) % Deg(360)
    IN IF normalizedAngle > Deg(90) /\ normalizedAngle < Deg(270)
       THEN angle + Deg(180) ELSE angle

RECURSIVE MonthLoop(_, _, _)
MonthLoop(currentDate, end, markers) ==
    IF currentDate <= end
    THEN MonthLoop(setMonthNext(currentDate), end,
                   Append(markers,
                          [angle |-> dateToAngle(currentDate),
                           month |-> getMonth(currentDate),
                           year |-> getFullYear(currentDate),
                           showYear |-> getFullYear(currentDate) # getFullYear(today),
                           rotation |-> LabelRotation(dateToAngle(currentDate))]))
    ELSE markers

monthMarkers ==
    LET start == fullYearStartDate
    IN MonthLoop(MakeDate(getFullYear(start), getMonth(start) + 1, 15, 0, 0),
                 fullYearEndDate, << >>)

todayMarker == [angle |-> dateToAngle(today)]

\* mutant: the week loop starts at the window start, whatever its weekday
FirstWeekStart_NoMonday(start) == start

\* the Monday on or before start:
\*   if (dayOfWeek !== 1) setDate(getDate() - (dayOfWeek === 0 ? 6 : dayOfWeek - 1))
FirstWeekStart(start) ==
    LET dayOfWeek == getDay(start)
    IN IF dayOfWeek # 1
       THEN start - (IF dayOfWeek = 0 THEN 6 ELSE dayOfWeek - 1) * TicksPerDay
       ELSE start

weekMarkers ==
    LET visited == LoopDates(FirstWeekStart(fullYearStartDate), fullYearEndDate, 7)
    IN [i \in 1..Len(visited) |->
          LET weekNum == getWeekNumber(visited[i])
              wStartAngle == dateToAngle(visited[i])
              wEndAngle == dateToAngle(visited[i] + 6 * TicksPerDay)
          IN [weekNum |-> weekNum,
              startAngle |-> wStartAngle,
              endAngle |-> wEndAngle,
              midAngle |-> (wStartAngle + wEndAngle) \div 2,
              year |-> getFullYear(visited[i]),
              isOdd |-> weekNum % 2 = 1]]

---------------------------------------------------------------------------
(* Inputs the model draws from *)

ScopeIds == {"L1", "L2"}

Layer(id, ringIndex, isVisible) ==
    [id |-> id, ringIndex |-> ringIndex, isVisible |-> isVisible]

Activity(id, scope, startDate, endDate) ==
    [id |-> id, scope |-> scope, startDate |-> startDate, endDate |-> endDate]

\* the default of the layers prop (two of the three mock layers)
mockLayers == <<Layer("L1", 0, TRUE), Layer("L2", 1, TRUE)>>

\* layer snapshots a parent passes: none, one, contiguous, with a gap,
\* unsorted, tied ring indices, a hidden layer
LayerSnapshots ==
    { << >>,
      <<Layer("L1", 0, TRUE)>>,
      <<Layer("L2", 2, TRUE)>>,
      mockLayers,
      <<Layer("L1", 0, TRUE), Layer("L2", 2, TRUE)>>,
      <<Layer("L2", 1, TRUE), Layer("L1", 0, TRUE)>>,
      <<Layer("L1", 1, TRUE), Layer("L2", 1, TRUE)>>,
      <<Layer("L2", 1, TRUE), Layer("L1", 1, TRUE)>>,
      <<Layer("L1", 0, TRUE), Layer("L2", 1, FALSE)>>,
      <<Layer("L1", 0, FALSE), Layer("L2", 1, TRUE)>> }

Day(y, m, d) == MakeDate(y, m, d, 0, 0)

Today0 == MakeDate(2025, 6, 15, 0, 0)

\* activities of the layout specification (today = 2025-06-15)
LayoutCatalogue ==
    { Activity("A", "L1", Day(2025, 6, 1), Day(2025, 6, 5)),
      Activity("B", "L1", Day(2025, 6, 3), Day(2025, 6, 10)),
      Activity("C", "L1", Day(2025, 7, 1), Day(2025, 7, 1)),
      Activity("D", "L1", Day(2025, 6, 1), Day(2025, 6, 10)),
      Activity("E", "L1", Day(2025, 6, 4), Day(2025, 6, 4)),
      Activity("F", "L2", Day(2025, 6, 2), Day(2025, 6, 4)) }

ActivityIds(acts) == {acts[i].id : i \in 1..Len(acts)}

---------------------------------------------------------------------------
(* Operations *)

\* the two effects: when a signal the rotation effect read has changed,
\* targetRotation is recomputed; it is copied to rotationOffset
RunRotationEffect ==
    LET reads == EffectReads(highlightedActivityId, activities)
        rerun == \/ highlightedActivityId' # highlightedActivityId
                 \/ "activities" \in reads /\ activities' # activities
                 \/ "isMobileView" \in reads /\ isMobileView' # isMobileView
    IN /\ targetRotation' =
             IF rerun
             THEN RotationEffect(highlightedActivityId', activities', isMobileView')
             ELSE targetRotation
       /\ rotationOffset' = targetRotation'

\* App.handleAddActivity: replace the activity with the same id, else append
handleAddActivity(activity) ==
    /\ IF activity.id \in ActivityIds(activities)
       THEN activities' =
               [i \in 1..Len(activities) |->
                   IF i = (CHOOSE j \in 1..Len(activities) :
                              /\ activities[j].id = activity.id
                              /\ \A k \in 1..(j-1) : activities[k].id # activity.id)
                   THEN activity ELSE activities[i]]
       ELSE /\ Len(activities) < MaxActivities
            /\ activities' = Append(activities, activity)
    /\ UNCHANGED <<layers, scopeFilters, highlightedActivityId, isMobileView, today>>
    /\ RunRotationEffect

\* App.handleDeleteActivity
handleDeleteActivity(id) ==
    /\ id \in ActivityIds(activities)
    /\ activities' = SelectSeq(activities, LAMBDA a : a.id # id)
    /\ UNCHANGED <<layers, scopeFilters, highlightedActivityId, isMobileView, today>>
    /\ RunRotationEffect

\* the parent passes another layers array
LayersProp(ls) ==
    /\ layers' = ls
    /\ UNCHANGED <<activities, scopeFilters, highlightedActivityId, isMobileView,
                   today, targetRotation, rotationOffset>>

\* one entry of the scopeFilters prop is set (a filter checkbox, or a stored
\* layerVisibility entry merged in)
ScopeFiltersProp(key, value) ==
    /\ scopeFilters' = MapSet(scopeFilters, key, value)
    /\ UNCHANGED <<activities, layers, highlightedActivityId, isMobileView,
                   today, targetRotation, rotationOffset>>

\* App.handleLayersUpdate: the layers are replaced and the filters rebuilt
\* from them (the activities the reload returns are the ones there were)
handleLayersUpdate(newLayers) ==
    /\ layers' = newLayers
    /\ scopeFilters' = createDefaultScopeFilters(newLayers)
    /\ UNCHANGED <<activities, highlightedActivityId, isMobileView, today,
                   targetRotation, rotationOffset>>

\* the parent passes another highlightedActivityId
HighlightProp(id) ==
    /\ highlightedActivityId' = id
    /\ UNCHANGED <<activities, layers, scopeFilters, isMobileView, today>>
    /\ RunRotationEffect

\* checkMobile: isMobileView = window.innerWidth <= 768
checkMobile(narrow) ==
    /\ isMobileView' = narrow
    /\ UNCHANGED <<activities, layers, scopeFilters, highlightedActivityId, today>>
    /\ RunRotationEffect

---------------------------------------------------------------------------
(* Specification of the layout: layers, activities and filters vary *)

Init ==
    /\ activities = << >>
    /\ layers = mockLayers
    /\ scopeFilters = << >>
    /\ highlightedActivityId = null
    /\ isMobileView = FALSE
    /\ today = Today0
    /\ targetRotation = 0
    /\ rotationOffset = 0

AddLayoutActivity == \E a \in LayoutCatalogue : handleAddActivity(a)
DeleteActivity == \E id \in ActivityIds(activities) : handleDeleteActivity(id)
SetLayers == \E ls \in LayerSnapshots : LayersProp(ls)
SetScopeFilter == \E key \in ScopeIds, value \in BOOLEAN : ScopeFiltersProp(key, value)

Next ==
    \/ AddLayoutActivity
    \/ DeleteActivity
    \/ SetLayers
    \/ SetScopeFilter

Spec == Init /\ [][Next]_vars

---------------------------------------------------------------------------
(* Specification of the year window: today and the activities' dates vary *)

WindowTodays == { Today0, MakeDate(2025, 6, 15, 14, 40) }

WindowCatalogue ==
    { Activity("W1", "L1", Day(2024, 12, 20), Day(2024, 12, 22)),
      Activity("W2", "L1", Day(2024, 12, 10), Day(2024, 12, 12)),
      Activity("W3", "L1", Day(2024, 12, 10), Day(2024, 12, 15)),
      Activity("W4", "L1", Day(2025, 12, 14), Day(2025, 12, 20)),
      Activity("W5", "L1", Day(2025, 12, 16), Day(2025, 12, 18)),
      Activity("W6", "L1", Day(2025, 6, 10), Day(2025, 6, 20)) }

\* App.svelte: layers = [...mockLayers], scopeFilters = createDefaultScopeFilters(mockLayers)
InitWindow ==
    /\ activities = << >>
    /\ layers = mockLayers
    /\ scopeFilters = createDefaultScopeFilters(mockLayers)
    /\ highlightedActivityId = null
    /\ isMobileView = FALSE
    /\ today \in WindowTodays
    /\ targetRotation = 0
    /\ rotationOffset = 0

AddWindowActivity == \E a \in WindowCatalogue : handleAddActivity(a)

NextWindow ==
    \/ AddWindowActivity
    \/ DeleteActivity
    \/ SetScopeFilter

SpecWindow == InitWindow /\ [][NextWindow]_vars

---------------------------------------------------------------------------
(* Specification of the focus rotation: highlight and viewport vary *)

\* a date relative to Today0
At(days, h, mi) == Today0 + days * TicksPerDay + (h * 60 + mi) \div 20

\* midpoint angles: exactly 90, exactly 70, just above 90, exactly -90,
\* about 80, close to today, and exactly 150
FocusCatalogue ==
    { Activity("FA", "L1", At(91, 0, 0), At(91, 12, 0)),
      Activity("FB", "L1", At(70, 0, 0), At(71, 22, 40)),
      Activity("FC", "L1", At(91, 0, 0), At(91, 12, 20)),
      Activity("FD", "L1", At(-92, 12, 0), At(-91, 0, 0)),
      Activity("FE", "L1", At(80, 0, 0), At(82, 0, 0)),
      Activity("FF", "L1", At(-14, 0, 0), At(-10, 0, 0)),
      Activity("FG", "L1", At(152, 2, 0), At(152, 2, 0)) }

FocusIds == {a.id : a \in FocusCatalogue}

InitFocus ==
    /\ activities = << >>
    /\ layers = mockLayers
    /\ scopeFilters = createDefaultScopeFilters(mockLayers)
    /\ highlightedActivityId = null
    /\ isMobileView = FALSE
    /\ today = Today0
    /\ targetRotation = 0
    /\ rotationOffset = 0

AddFocusActivity == \E a \in FocusCatalogue : handleAddActivity(a)
SetHighlight == \E id \in FocusIds \cup {null} : HighlightProp(id)
Resize == \E narrow \in BOOLEAN : checkMobile(narrow)

NextFocus ==
    \/ AddFocusActivity
    \/ DeleteActivity
    \/ SetHighlight
    \/ Resize

SpecFocus == InitFocus /\ [][NextFocus]_vars

---------------------------------------------------------------------------
(* Specification of the ticks: the day on which the component is           *)
(* constructed varies                                                      *)

FirstTickDay == DaysFromCivil(2023, 12, 25)

\* const today = new Date(): the component is constructed at time t
Mount(t) ==
    /\ today' = t
    /\ UNCHANGED <<activities, layers, scopeFilters, highlightedActivityId,
                   isMobileView>>
    /\ targetRotation' =
          RotationEffect(highlightedActivityId, activities, isMobileView)'
    /\ rotationOffset' = targetRotation'

InitTicks ==
    /\ activities = << >>
    /\ layers = mockLayers
    /\ scopeFilters = createDefaultScopeFilters(mockLayers)
    /\ highlightedActivityId = null
    /\ isMobileView = FALSE
    /\ today \in { FirstTickDay * TicksPerDay + TimeWithinDay(t) : t \in WindowTodays }
    /\ targetRotation = 0
    /\ rotationOffset = 0

MountNextDay ==
    /\ DayOf(today) < FirstTickDay + MaxTickDays
    /\ Mount(today + TicksPerDay)

NextTicks ==
    \/ MountNextDay
    \/ Resize

SpecTicks == InitTicks /\ [][NextTicks]_vars

---------------------------------------------------------------------------
(* Specification of the week bands: the day of construction ranges over a  *)
(* leap year of 53 ISO weeks                                               *)

FirstWeekDay == DaysFromCivil(2019, 12, 25)

InitWeeks ==
    /\ activities = << >>
    /\ layers = mockLayers
    /\ scopeFilters = createDefaultScopeFilters(mockLayers)
    /\ highlightedActivityId = null
    /\ isMobileView = FALSE
    /\ today \in { FirstWeekDay * TicksPerDay + TimeWithinDay(t) : t \in WindowTodays }
    /\ targetRotation = 0
    /\ rotationOffset = 0

MountNextWeekDay ==
    /\ DayOf(today) < FirstWeekDay + MaxTickDays
    /\ Mount(today + TicksPerDay)

NextWeeks ==
    \/ MountNextWeekDay
    \/ Resize

SpecWeeks == InitWeeks /\ [][NextWeeks]_vars

---------------------------------------------------------------------------
(* Specification of the radii: the number of layers varies *)

RadiiLayerIds == <<"L1", "L2", "L3", "L4", "L5", "L6", "L7", "L8", "L9">>

\* n visible layers with ring indices 0..n-1
RadiiLayers(n) == [i \in 1..n |-> Layer(RadiiLayerIds[i], i - 1, TRUE)]

RadiiSnapshots == {RadiiLayers(n) : n \in 1..Len(RadiiLayerIds)}

\* four activities of the first layer that overlap one another and two
\* overlapping ones of the ninth
RadiiCatalogue ==
    { Activity("A", "L1", Day(2025, 6, 1), Day(2025, 6, 5)),
      Activity("B", "L1", Day(2025, 6, 3), Day(2025, 6, 10)),
      Activity("D", "L1", Day(2025, 6, 1), Day(2025, 6, 10)),
      Activity("E", "L1", Day(2025, 6, 4), Day(2025, 6, 4)),
      Activity("R9", "L9", Day(2025, 6, 2), Day(2025, 6, 4)),
      Activity("S9", "L9", Day(2025, 6, 3), Day(2025, 6, 8)) }

InitRadii ==
    /\ activities = << >>
    /\ layers = mockLayers
    /\ scopeFilters = createDefaultScopeFilters(mockLayers)
    /\ highlightedActivityId = null
    /\ isMobileView = FALSE
    /\ today = Today0
    /\ targetRotation = 0
    /\ rotationOffset = 0

AddRadiiActivity == \E a \in RadiiCatalogue : handleAddActivity(a)
UpdateLayers == \E ls \in RadiiSnapshots : handleLayersUpdate(ls)

NextRadii ==
    \/ AddRadiiActivity
    \/ DeleteActivity
    \/ UpdateLayers

SpecRadii == InitRadii /\ [][NextRadii]_vars

---------------------------------------------------------------------------
(* Specification of inverted date ranges: activities that end before they  *)
(* start                                                                   *)

\* ten days and one day inverted, inverted with the end before the window,
\* and two regular activities
InvertedCatalogue ==
    { Activity("I1", "L1", Day(2025, 6, 20), Day(2025, 6, 10)),
      Activity("I2", "L1", Day(2025, 6, 12), Day(2025, 6, 11)),
      Activity("I3", "L1", Day(2025, 6, 20), Day(2024, 6, 1)),
      Activity("I4", "L1", Day(2025, 6, 8), Day(2025, 6, 22)),
      Activity("I5", "L2", Day(2025, 6, 9), Day(2025, 6, 9)) }

InitInverted ==
    /\ activities = << >>
    /\ layers = mockLayers
    /\ scopeFilters = createDefaultScopeFilters(mockLayers)
    /\ highlightedActivityId = null
    /\ isMobileView = FALSE
    /\ today = Today0
    /\ targetRotation = 0
    /\ rotationOffset = 0

AddInvertedActivity == \E a \in InvertedCatalogue : handleAddActivity(a)

NextInverted ==
    \/ AddInvertedActivity
    \/ DeleteActivity
    \/ SetScopeFilter

SpecInverted == InitInverted /\ [][NextInverted]_vars

---------------------------------------------------------------------------
(* Layer administration: the layers tab of the admin settings and the      *)
(* drag-and-drop list of the filter panel.  Both work on the layers of the *)
(* application: the admin settings copy the layers prop into their state   *)
(* and hand every change back through onLayersUpdate, the filter panel     *)
(* binds the layers.                                                       *)

MaxLayers == 4

AdminLayer(id, type, ringIndex) ==
    [id |-> id, type |-> type, ringIndex |-> ringIndex, isVisible |-> TRUE]

\* mockData.mockLayers, all three layers, with their types
adminMockLayers ==
    <<AdminLayer("layer-holidays-no", "holidays", 0),
      AdminLayer("layer-org", "organization", 1),
      AdminLayer("layer-groups", "custom", 2)>>

\* stored layer orders: none, a permutation, and one that still names a
\* layer that no longer exists (which leaves a gap in the ring indices)
UserOrders ==
    { << >>,
      <<"layer-groups", "layer-holidays-no", "layer-org">>,
      <<"layer-org", "layer-old", "layer-holidays-no", "layer-groups">> }

\* applyUserLayerOrder: a layer named in the order gets its (0-based)
\* position there as ringIndex, then the array is sorted by ringIndex
applyUserLayerOrder(ls, userOrder) ==
    IF Len(userOrder) = 0 THEN ls
    ELSE SortByRing(
           [i \in 1..Len(ls) |->
              LET named == {k \in 1..Len(userOrder) : userOrder[k] = ls[i].id}
              IN IF named # {}
                 THEN [ls[i] EXCEPT !.ringIndex =
                          (CHOOSE k \in named : \A m \in named : m <= k) - 1]
                 ELSE ls[i]])

\* the layers the form can add: a fresh id and the type selected
NewLayers ==
    { [id |-> "N1", type |-> "custom"],
      [id |-> "N2", type |-> "holidays"],
      [id |-> "N3", type |-> "custom"] }

\* const sortedLayers = $derived([...layers].sort(by ringIndex))
sortedLayers == SortByRing(layers)

\* position (1-based) of the layer with this id in an array
IndexOfLayer(ls, id) == CHOOSE i \in 1..Len(ls) : ls[i].id = id

\* Math.max(...layers.map(l => l.ringIndex)), or -1 for no layers
maxRingIndex ==
    IF Len(layers) > 0
    THEN CHOOSE r \in {layers[i].ringIndex : i \in 1..Len(layers)} :
            \A i \in 1..Len(layers) : layers[i].ringIndex <= r
    ELSE -1

handleSubmitLayer_CountAsIndex(new) ==
    /\ Len(layers) < MaxLayers
    /\ \A i \in 1..Len(layers) : layers[i].id # new.id
    /\ \E newLayers \in {Append(layers,
                                 AdminLayer(new.id, new.type, Len(layers)))} :
          handleLayersUpdate(newLayers)

\* handleSubmitLayer, no layer being edited: the new layer goes behind the
\* others in the array with ringIndex = maxRingIndex + 1, and the layers are
\* emitted
handleSubmitLayer(new) ==
    /\ Len(layers) < MaxLayers
    /\ \A i \in 1..Len(layers) : layers[i].id # new.id
    /\ \E newLayers \in {Append(layers,
                                 AdminLayer(new.id, new.type, maxRingIndex + 1))} :
          handleLayersUpdate(newLayers)

\* the ring indices of the layers with ids a and b exchanged, array order kept
SwapRingIndex(ls, a, b) ==
    [i \in 1..Len(ls) |->
        IF ls[i].id = a
        THEN [ls[i] EXCEPT !.ringIndex = ls[IndexOfLayer(ls, b)].ringIndex]
        ELSE IF ls[i].id = b
             THEN [ls[i] EXCEPT !.ringIndex = ls[IndexOfLayer(ls, a)].ringIndex]
             ELSE ls[i]]

\* handleMoveLayerUp(layer), layer being a row of sortedLayers
handleMoveLayerUp(id) ==
    \E sorted \in {sortedLayers} :
        \E index \in {IndexOfLayer(sorted, id)} :
            /\ index > 1
            /\ \E newLayers \in {SwapRingIndex(layers, id, sorted[index - 1].id)} :
                  handleLayersUpdate(newLayers)

\* handleMoveLayerDown(layer)
handleMoveLayerDown(id) ==
    \E sorted \in {sortedLayers} :
        \E index \in {IndexOfLayer(sorted, id)} :
            /\ index < Len(sorted)
            /\ \E newLayers \in {SwapRingIndex(layers, id, sorted[index + 1].id)} :
                  handleLayersUpdate(newLayers)

\* confirmDeleteLayer: the layer is filtered out and the remaining layers
\* get their (0-based) array position as ringIndex
RemoveLayer(ls, id) ==
    LET kept == SelectSeq(ls, LAMBDA l : l.id # id)
    IN [i \in 1..Len(kept) |-> [kept[i] EXCEPT !.ringIndex = i - 1]]

\* handleDeleteLayer(layer) for a layer that is not a system layer, then
\* confirmDeleteLayer with deleteAction 'delete' or 'move': the activities of
\* the layer are deleted or moved to moveToLayerId, the layer is removed and
\* the layers are emitted
DeleteLayer(id, deleteAction, moveToLayerId) ==
    \E layer \in {layers[IndexOfLayer(layers, id)]},
       newLayers \in {RemoveLayer(layers, id)} :
       /\ ~(layer.type = "holidays" \/ layer.type = "organization")
       /\ activities' =
             IF deleteAction = "move" /\ moveToLayerId # ""
             THEN [i \in 1..Len(activities) |->
                     IF activities[i].scope = id
                     THEN [activities[i] EXCEPT !.scope = moveToLayerId]
                     ELSE activities[i]]
             ELSE SelectSeq(activities, LAMBDA a : a.scope # id)
       /\ layers' = newLayers
       /\ scopeFilters' = createDefaultScopeFilters(newLayers)
       /\ UNCHANGED <<highlightedActivityId, isMobileView, today,
                      targetRotation, rotationOffset>>

\* the default of moveToLayerId: the first layer that is neither the one
\* being deleted nor a holidays layer, '' if there is none
DefaultMoveTarget(id) ==
    LET available == SelectSeq(layers,
                               LAMBDA l : l.id # id /\ l.type # "holidays")
    IN IF Len(available) > 0 THEN available[1].id ELSE ""

\* handleDrop(targetIndex) after handleDragStart(draggedIndex), both 0-based
\* rows of sortedLayers: the dragged row is spliced out and in again at the
\* target, every row gets its position as ringIndex, and the result becomes
\* the layers (handleLayersReorder keeps the filters)
handleDrop(draggedIndex, targetIndex) ==
    \E sorted \in {sortedLayers} :
       LET draggedItem == sorted[draggedIndex + 1]
           without == [i \in 1..(Len(sorted) - 1) |->
                          IF i <= draggedIndex THEN sorted[i]
                          ELSE sorted[i + 1]]
           newLayers == SubSeq(without, 1, targetIndex) \o <<draggedItem>> \o
                        SubSeq(without, targetIndex + 1, Len(without))
       IN
       /\ draggedIndex # targetIndex
       /\ layers' = [i \in 1..Len(newLayers) |->
                        [newLayers[i] EXCEPT !.ringIndex = i - 1]]
       /\ UNCHANGED <<activities, scopeFilters, highlightedActivityId,
                      isMobileView, today, targetRotation, rotationOffset>>

InitLayers ==
    /\ activities = << >>
    /\ layers \in {applyUserLayerOrder(adminMockLayers, o) : o \in UserOrders}
    /\ scopeFilters = createDefaultScopeFilters(adminMockLayers)
    /\ highlightedActivityId = null
    /\ isMobileView = FALSE
    /\ today = Today0
    /\ targetRotation = 0
    /\ rotationOffset = 0

AddLayer == \E new \in NewLayers : handleSubmitLayer(new)

MoveLayerUp == \E i \in 1..Len(layers) : handleMoveLayerUp(layers[i].id)

MoveLayerDown == \E i \in 1..Len(layers) : handleMoveLayerDown(layers[i].id)

ConfirmDeleteLayer ==
    \E i \in 1..Len(layers) :
        \E deleteAction \in {"delete", "move"} :
            DeleteLayer(layers[i].id, deleteAction,
                        DefaultMoveTarget(layers[i].id))

DropLayer ==
    \E draggedIndex, targetIndex \in 0..(Len(layers) - 1) :
        handleDrop(draggedIndex, targetIndex)

NextLayers ==
    \/ AddLayer
    \/ MoveLayerUp
    \/ MoveLayerDown
    \/ ConfirmDeleteLayer
    \/ DropLayer

SpecLayers == InitLayers /\ [][NextLayers]_vars

---------------------------------------------------------------------------
(* Properties *)

\* inclusive date ranges overlap
Overlap(a, b) == a.startDate <= b.endDate /\ a.endDate >= b.startDate

VisibleLayerIds == {layers[i].id : i \in {j \in 1..Len(layers) : layers[j].isVisible}}
LayerIds == {layers[i].id : i \in 1..Len(layers)}

\* the activity at input position i takes part in the allocation of its layer
Allocated(i) ==
    /\ ScopeEnabled(activities[i].scope)
    /\ activities[i].scope \in VisibleLayerIds

\* input position j is processed before input position i within one layer:
\* ascending startDate, ties in input order
ProcessedBefore(j, i) ==
    /\ j # i
    /\ Allocated(j)
    /\ activities[j].scope = activities[i].scope
    /\ \/ activities[j].startDate < activities[i].startDate
       \/ activities[j].startDate = activities[i].startDate /\ j < i

\* the sub-lanes in which no activity processed before i overlaps i
FreeLanes(layerMap, i) ==
    {l \in 0..2 :
        ~\E j \in 1..Len(activities) :
            /\ ProcessedBefore(j, i)
            /\ layerMap[activities[j].id].subLayer = l
            /\ Overlap(activities[i], activities[j])}

MinOf(S) == CHOOSE x \in S : \A y \in S : x <= y

\* the arc of the activity x was clamped: in every sub-lane of its band there
\* is another assigned activity that overlaps it
Clamped(layerMap, arc) ==
    \A l \in 0..2 :
        \E k \in 1..Len(sortedActivities) :
            /\ sortedActivities[k].id # arc.activity.id
            /\ LayerInfo(layerMap, sortedActivities[k]).scopeRing = arc.scopeRing
            /\ LayerInfo(layerMap, sortedActivities[k]).subLayer = l
            /\ Overlap(arc.activity, sortedActivities[k])

\* C1: two arcs of one layout pass that share (band, sub-lane) do not overlap
\* in time unless one of them was clamped (it overlapped an assigned activity
\* in each of the 3 sub-lanes of the band), for every input, hidden and
\* unknown layers included.
C1_SubLaneNoOverlap ==
    LET arcs == activityArcs
        layerMap == activityLayers
    IN \A i, j \in 1..Len(arcs) :
          ( /\ i < j
            /\ arcs[i].scopeRing = arcs[j].scopeRing
            /\ arcs[i].subLayer = arcs[j].subLayer
            /\ Overlap(arcs[i].activity, arcs[j].activity) )
          => (Clamped(layerMap, arcs[i]) \/ Clamped(layerMap, arcs[j]))

\* C2: within one allocated layer the activities are processed in ascending
\* startDate order, ties in input order, and each gets the lowest of the
\* sub-lanes 0..2 in which no activity processed before it overlaps it, or
\* sub-lane 2 when there is none; A, B, C alone in a layer get 0, 1, 0.
C2_FirstFit ==
    LET layerMap == activityLayers
        idsOfL1 == {activities[i].id :
                      i \in {k \in 1..Len(activities) :
                               Allocated(k) /\ activities[k].scope = "L1"}}
    IN /\ \A i \in 1..Len(activities) :
             Allocated(i) =>
                /\ activities[i].id \in DOMAIN layerMap
                /\ layerMap[activities[i].id].subLayer =
                      IF FreeLanes(layerMap, i) = {} THEN 2
                      ELSE MinOf(FreeLanes(layerMap, i))
       /\ idsOfL1 = {"A", "B", "C"} =>
             /\ layerMap["A"].subLayer = 0
             /\ layerMap["B"].subLayer = 1
             /\ layerMap["C"].subLayer = 0

\* C2 witness: an activity was clamped to sub-lane 2 because all three
\* sub-lanes held an overlapping activity, in a layer whose processing order
\* differs from the input order
C2_Witness ==
    LET layerMap == activityLayers
    IN \E i, j \in 1..Len(activities) :
          /\ Allocated(i)
          /\ FreeLanes(layerMap, i) = {}
          /\ layerMap[activities[i].id].subLayer = 2
          /\ ProcessedBefore(j, i)
          /\ i < j

\* C3: the band of every arc is the 0-based position of its (visible) layer
\* in the layers sorted by ringIndex, and the arc's radii lie inside the ring
\* background drawn for that layer.
C3_BandIsSortPosition ==
    LET arcs == activityArcs
        rings == scopeRingBackgrounds
    IN \A i \in 1..Len(arcs) :
          \A p \in 1..Len(rings) :
             ( /\ rings[p].id = arcs[i].activity.scope
               /\ arcs[i].activity.scope \in VisibleLayerIds )
             => /\ arcs[i].scopeRing = p - 1
                /\ NumLeq(rings[p].innerRadius, arcs[i].innerRadius)
                /\ NumLeq(arcs[i].outerRadius, rings[p].outerRadius)

ArcIds == LET arcs == activityArcs IN {arcs[i].activity.id : i \in 1..Len(arcs)}

\* the full-year window: 182 days on either side of today
windowStart == today - 182 * TicksPerDay
windowEnd == today + 182 * TicksPerDay

EntirelyOutsideWindow(a) == a.endDate < windowStart \/ a.startDate > windowEnd

\* C5: a scope-enabled activity is absent from the layout assignment
\* (activityLayers) and from activityArcs exactly when it lies entirely
\* outside the full-year window.
C5_WindowExclusion ==
    LET layerMap == activityLayers
        arcIds == ArcIds
        included == sortedActivities
    IN \A i \in 1..Len(included) :
          (included[i].id \notin DOMAIN layerMap /\ included[i].id \notin arcIds)
             <=> EntirelyOutsideWindow(included[i])

IsSpan(a, startDate, endDate) == a.startDate = startDate /\ a.endDate = endDate

TodayIs(y, m, d) == DayOf(today) = DaysFromCivil(y, m, d)

\* C6 as stated: with today = 2025-06-15 an activity spanning
\* 2024-12-20..2024-12-22 is excluded from activityArcs.
C6_Dec20Excluded ==
    LET arcs == activityArcs
    IN TodayIs(2025, 6, 15) =>
          \A i \in 1..Len(arcs) :
              ~IsSpan(arcs[i].activity, Day(2024, 12, 20), Day(2024, 12, 22))

\* C6 amended: with today = 2025-06-15 the window starts on 2024-12-15, so a
\* scope-enabled activity spanning 2024-12-20..2024-12-22 is included in
\* activityArcs, and one spanning 2024-12-10..2024-12-12 is excluded.
C6_Dec20Included ==
    LET arcIds == ArcIds
        included == sortedActivities
    IN TodayIs(2025, 6, 15) =>
          /\ DayOf(fullYearStartDate) = DaysFromCivil(2024, 12, 15)
          /\ \A i \in 1..Len(included) :
                /\ IsSpan(included[i], Day(2024, 12, 20), Day(2024, 12, 22))
                      => included[i].id \in arcIds
                /\ IsSpan(included[i], Day(2024, 12, 10), Day(2024, 12, 12))
                      => included[i].id \notin arcIds

\* C6 witness: both activities are scope-enabled inputs of one layout pass on
\* 2025-06-15; the first has an arc, the second has none
C6_Witness ==
    LET arcIds == ArcIds
        included == sortedActivities
    IN /\ TodayIs(2025, 6, 15)
       /\ \E i, j \in 1..Len(included) :
             /\ IsSpan(included[i], Day(2024, 12, 20), Day(2024, 12, 22))
             /\ included[i].id \in arcIds
             /\ IsSpan(included[j], Day(2024, 12, 10), Day(2024, 12, 12))
             /\ included[j].id \notin arcIds

\* C7: an activity has an arc or a sub-lane assignment only if scopeFilters
\* maps its layer id to true.
C7_ScopeFiltering ==
    LET layerMap == activityLayers
        arcIds == ArcIds
    IN \A i \in 1..Len(activities) :
          (activities[i].id \in arcIds \/ activities[i].id \in DOMAIN layerMap)
          => /\ activities[i].scope \in DOMAIN scopeFilters
             /\ scopeFilters[activities[i].scope] = TRUE

\* C7 witness: one layout pass with an activity whose layer maps to false and
\* has neither arc nor sub-lane, next to an activity whose layer maps to true
\* and has both
C7_Witness ==
    LET layerMap == activityLayers
        arcIds == ArcIds
    IN \E i, j \in 1..Len(activities) :
          /\ activities[i].scope \in DOMAIN scopeFilters
          /\ scopeFilters[activities[i].scope] = FALSE
          /\ activities[i].id \notin arcIds
          /\ activities[i].id \notin DOMAIN layerMap
          /\ activities[j].scope \in DOMAIN scopeFilters
          /\ scopeFilters[activities[j].scope] = TRUE
          /\ activities[j].id \in arcIds
          /\ activities[j].id \in DOMAIN layerMap

\* C8: no arc and no ring background has an infinite or NaN radius, also when
\* the layer set is empty.
C8_FiniteRadii ==
    LET arcs == activityArcs
        rings == scopeRingBackgrounds
    IN /\ \A i \in 1..Len(arcs) :
             IsFinite(arcs[i].innerRadius) /\ IsFinite(arcs[i].outerRadius)
       /\ \A p \in 1..Len(rings) :
             IsFinite(rings[p].innerRadius) /\ IsFinite(rings[p].outerRadius)

\* the 0-based position of the layer at input position i when the layers are
\* ordered by ringIndex, ties in input order
RankOf(i) ==
    Cardinality({j \in 1..Len(layers) :
                    \/ layers[j].ringIndex < layers[i].ringIndex
                    \/ layers[j].ringIndex = layers[i].ringIndex /\ j < i})

\* C9: the layers that get a ring band and the layers whose activities get
\* sub-lanes are exactly the input layers in ringIndex order (ties in input
\* order), and the number of bands that sizes the arcs is the number of
\* layers used for allocation.
C9_LayersUsed ==
    /\ Len(scopeRingBackgrounds) = Len(layers)
    /\ Len(scopeConfigs) = Len(layers)
    /\ \A i \in 1..Len(layers) :
          /\ scopeRingBackgrounds[RankOf(i) + 1].id = layers[i].id
          /\ RankOf(i) + 1 \in 1..Len(scopeConfigs)
          /\ scopeConfigs[RankOf(i) + 1].id = layers[i].id
    /\ SCOPE_RINGS = Len(scopeConfigs)

\* twice the midpoint angle of the highlighted activity, when it is present
HighlightedPresent == highlightedActivityId \in ActivityIds(activities)
HighlightedTwiceMid ==
    LET a == CHOOSE x \in {activities[i] : i \in 1..Len(activities)} :
                x.id = highlightedActivityId
    IN dateToAngle(a.startDate) + dateToAngle(a.endDate)

\* C10: the rotation is exactly 0 when nothing is highlighted, when the
\* highlighted id is not in the activity set, and when the midpoint angle m of
\* the highlighted activity has |m| <= 70 (compact) or 90 (full) degrees,
\* the boundary included.
C10_Centered ==
    LET range == IF isMobileView THEN 70 ELSE 90
    IN ( \/ highlightedActivityId = null
         \/ ~HighlightedPresent
         \/ Abs(HighlightedTwiceMid) <= 2 * range * AngleScale )
       => (targetRotation = 0 /\ rotationOffset = 0)

\* C10 witness: the highlighted activity's midpoint is exactly on the boundary
\* of the visible range and the rotation is 0
C10_Witness ==
    /\ highlightedActivityId # null
    /\ HighlightedPresent
    /\ Abs(HighlightedTwiceMid) = 2 * (IF isMobileView THEN 70 ELSE 90) * AngleScale
    /\ targetRotation = 0

\* C11: when the highlighted activity's midpoint angle m has |m| > visibleRange
\* (70 compact, 90 full), the rotation is -m on a compact viewport and
\* -m * 0.85 on a full one; m = 150 on a full viewport gives -127.5.
C11_RotationValue ==
    LET range == IF isMobileView THEN 70 ELSE 90
        percent == IF isMobileView THEN 100 ELSE 85
    IN (HighlightedPresent /\ Abs(HighlightedTwiceMid) > 2 * range * AngleScale)
       => /\ 10 * targetRotation = -(HighlightedTwiceMid * percent)
          /\ rotationOffset = targetRotation
          /\ (HighlightedTwiceMid = 2 * 150 * AngleScale /\ ~isMobileView)
                => 2 * targetRotation = -(255 * AngleScale * RotScale)

\* C11 witness: the activity with midpoint 150 degrees is highlighted on a
\* full viewport and the wheel is rotated by -127.5 degrees
C11_Witness ==
    /\ HighlightedPresent
    /\ ~isMobileView
    /\ HighlightedTwiceMid = 2 * 150 * AngleScale
    /\ 2 * rotationOffset = -(255 * AngleScale * RotScale)

\* position of an activity in the activities prop
InputIndex(id) == CHOOSE i \in 1..Len(activities) : activities[i].id = id

\* the order in which a pass processes two activities: ring, then start
\* date, then position in the input
ProcessedInOrder(a, b) ==
    LET ringA == getScopeConfigById(a.scope).ringIndex
        ringB == getScopeConfigById(b.scope).ringIndex
    IN \/ ringA < ringB
       \/ ringA = ringB /\ a.startDate < b.startDate
       \/ ringA = ringB /\ a.startDate = b.startDate
                        /\ InputIndex(a.id) < InputIndex(b.id)

C13_AngleAnchoring ==
    LET ticks == dayMarkers
    IN /\ dateToAngle(today) = 0
       /\ todayMarker.angle = 0
       /\ \E i \in 1..Len(ticks) : ticks[i].isToday
       /\ \A i \in 1..Len(ticks) : ticks[i].isToday => ticks[i].angle = 0

\* C13 witness: today is in the afternoon of a day that is neither a month
\* start nor a multiple of 5, and its tick is at angle 0
C13_Witness ==
    LET ticks == dayMarkers
    IN /\ TimeWithinDay(today) # 0
       /\ getDate(today) # 1 /\ getDate(today) % 5 # 0
       /\ \E i \in 1..Len(ticks) : ticks[i].isToday /\ ticks[i].angle = 0

\* the instants one 20-minute step apart within the day that begins at date
StepsOfDay(date) == {date + t : t \in 0..(TicksPerDay - 1)}

\* the angle grows from date to the instant one step later, and has the
\* sign of date - today
AngleGrows(date) ==
    /\ dateToAngle(date) < dateToAngle(date + 1)
    /\ date < today => dateToAngle(date) < 0
    /\ date > today => dateToAngle(date) > 0

\* C14: monotonicity. Within the window a later date has a larger angle;
\* dates before today have negative angles and dates after today positive
\* ones; each day advances the angle by 360/365 degrees, leap year or not.
C14_Monotonic ==
    LET days == LoopDates(fullYearStartDate, fullYearEndDate, 1)
    IN /\ \A k \in 1..Len(days) :
             /\ AngleGrows(days[k])
             /\ dateToAngle(days[k] + 1) <= dateToAngle(days[k] + TicksPerDay)
             /\ FULL_VIEW_DAYS * (dateToAngle(days[k] + TicksPerDay)
                                    - dateToAngle(days[k])) = Deg(360)
       /\ \A date \in StepsOfDay(fullYearStartDate) \cup StepsOfDay(today - TicksPerDay)
                       \cup StepsOfDay(today)
                       \cup StepsOfDay(fullYearEndDate - TicksPerDay) :
             AngleGrows(date)

\* C14 witness: the window holds 29 February 2024, and the two days from
\* 28 February to 1 March advance the angle by twice 360/365 degrees
C14_Witness ==
    /\ fullYearStartDate <= Day(2024, 2, 28) /\ Day(2024, 3, 1) <= fullYearEndDate
    /\ Day(2024, 3, 1) < today
    /\ DayOf(Day(2024, 3, 1)) - DayOf(Day(2024, 2, 28)) = 2
    /\ FULL_VIEW_DAYS * (dateToAngle(Day(2024, 3, 1)) - dateToAngle(Day(2024, 2, 28)))
          = 2 * Deg(360)
    /\ dateToAngle(Day(2024, 2, 28)) < dateToAngle(Day(2024, 3, 1))
    /\ dateToAngle(Day(2024, 3, 1)) < 0

\* C15: the focus rotation is history-free. After any sequence of changes to
\* the highlighted id, the activity set and the viewport class, the rotation
\* is the one computed from the current values alone; with no highlight, or
\* with the highlighted activity not in the set, it is 0.
C15_HistoryFree ==
    /\ targetRotation =
          RotationEffect(highlightedActivityId, activities, isMobileView)
    /\ rotationOffset = targetRotation
    /\ (highlightedActivityId = null \/ ~HighlightedPresent) => rotationOffset = 0

\* C15 witness: the highlighted id names an activity that is no longer in the
\* set, while an activity far from today is still there; the viewport is
\* compact and the rotation is 0
C15_Witness ==
    /\ highlightedActivityId = "FG"
    /\ ~HighlightedPresent
    /\ "FD" \in ActivityIds(activities)
    /\ isMobileView
    /\ rotationOffset = 0

\* the wheel is rotated for the highlighted activity
Rotated ==
    /\ HighlightedPresent
    /\ Abs(HighlightedTwiceMid) > 2 * (IF isMobileView THEN 70 ELSE 90) * AngleScale

\* C16: focus brings the activity into view. Whenever the wheel is rotated
\* for an activity whose midpoint angle m lies in the year window
\* (|m| <= 180), the on-screen midpoint angle m + rotation has absolute value
\* at most visibleRange (70 compact, 90 full).
C16_BroughtIntoView ==
    LET range == IF isMobileView THEN 70 ELSE 90
        onScreen == 10 * HighlightedTwiceMid + rotationOffset
    IN (Rotated /\ Abs(HighlightedTwiceMid) <= 2 * 180 * AngleScale)
       => Abs(onScreen) <= range * AngleScale * RotScale

\* C16 witness: the wheel is rotated on a full viewport for the activity at
\* 150 degrees, which ends up 22.5 degrees from the top
C16_Witness ==
    /\ Rotated
    /\ ~isMobileView
    /\ HighlightedTwiceMid = 2 * 150 * AngleScale
    /\ 2 * (10 * HighlightedTwiceMid + rotationOffset) = 45 * AngleScale * RotScale

\* the radii the formula of the claim gives an arc, with n layers:
\* bandThickness = totalRingSpace / n, subLaneThickness = bandThickness / 3
ClaimedInnerRadius(arc, n) ==
    Num(3 * n * (INNER_RADIUS + 10) + 3 * arc.scopeRing * totalRingSpace
           + arc.subLayer * totalRingSpace, 3 * n)
ClaimedOuterRadius(arc, n) ==
    Num(ClaimedInnerRadius(arc, n).n + totalRingSpace - 2 * 3 * n, 3 * n)
BandOuterEdge(arc, n) ==
    Num(n * (INNER_RADIUS + 10) + (arc.scopeRing + 1) * totalRingSpace, n)

\* C17: radii. Each arc has innerRadius = bandStart + subLane *
\* subLaneThickness and outerRadius = innerRadius + subLaneThickness - 2, with
\* subLaneThickness = bandThickness / 3 and bandThickness = (outer - inner) /
\* layerCount; for 1 to 9 layers every arc has innerRadius < outerRadius, arcs
\* in different sub-lanes of one band are radially disjoint, and no arc
\* extends past the outer edge of its band.
C17_Radii ==
    LET arcs == activityArcs
        rings == scopeRingBackgrounds
        n == Len(layers)
    IN n \in 1..9 =>
         /\ \A i \in 1..Len(arcs) :
               /\ NumEq(arcs[i].innerRadius, ClaimedInnerRadius(arcs[i], n))
               /\ NumEq(arcs[i].outerRadius, ClaimedOuterRadius(arcs[i], n))
               /\ NumLt(arcs[i].innerRadius, arcs[i].outerRadius)
               /\ NumLeq(arcs[i].outerRadius, BandOuterEdge(arcs[i], n))
               /\ \A p \in 1..Len(rings) :
                     rings[p].id = arcs[i].activity.scope
                       => /\ NumLeq(rings[p].innerRadius, arcs[i].innerRadius)
                          /\ NumLeq(arcs[i].outerRadius, rings[p].outerRadius)
         /\ \A i, j \in 1..Len(arcs) :
               ( /\ arcs[i].scopeRing = arcs[j].scopeRing
                 /\ arcs[i].subLayer < arcs[j].subLayer )
               => NumLt(arcs[i].outerRadius, arcs[j].innerRadius)

\* C17 witness: nine layers; the outermost band and the innermost band each
\* hold arcs in sub-lanes 0 and 1
C17_Witness ==
    LET arcs == activityArcs
    IN /\ Len(layers) = 9
       /\ \E i, j \in 1..Len(arcs) :
             /\ arcs[i].scopeRing = 8 /\ arcs[i].subLayer = 0
             /\ arcs[j].scopeRing = 8 /\ arcs[j].subLayer = 1
       /\ \E i, j \in 1..Len(arcs) :
             /\ arcs[i].scopeRing = 0 /\ arcs[i].subLayer = 0
             /\ arcs[j].scopeRing = 0 /\ arcs[j].subLayer = 1

\* C18: inverted date range. An enabled activity with endDate < startDate
\* whose startDate lies in the window is laid out as an arc of the minimum
\* width (3 degrees) positioned at its startDate: the arc exists, has finite
\* radii, is 3 degrees wide and holds the angle of the startDate.
C18_InvertedAtStart ==
    LET arcs == activityArcs
        included == sortedActivities
    IN \A k \in 1..Len(included) :
          ( /\ included[k].endDate < included[k].startDate
            /\ windowStart <= included[k].startDate
            /\ included[k].startDate <= windowEnd )
          => \E i \in 1..Len(arcs) :
                /\ arcs[i].activity = included[k]
                /\ IsFinite(arcs[i].innerRadius) /\ IsFinite(arcs[i].outerRadius)
                /\ arcs[i].endAngle - arcs[i].startAngle = Deg(minArcDegrees)
                /\ arcs[i].startAngle <= dateToAngle(included[k].startDate)
                /\ dateToAngle(included[k].startDate) <= arcs[i].endAngle

\* the calendar months <<year, month>> that overlap the window
MonthsOfWindow ==
    LET days == LoopDates(windowStart, windowEnd, 1)
    IN {<<getFullYear(days[k]), getMonth(days[k])>> : k \in 1..Len(days)}

\* C19: month ticks. For every value of today exactly one month tick is
\* emitted for each calendar month that overlaps the window
\* [today - 182 days, today + 182 days] - also for a month that overlaps it
\* only in its first days, at the window end - and none for any other month.
C19_MonthTicks ==
    LET marks == monthMarkers
        months == MonthsOfWindow
    IN /\ \A ym \in months :
             Cardinality({i \in 1..Len(marks) :
                             marks[i].year = ym[1] /\ marks[i].month = ym[2]}) = 1
       /\ \A i \in 1..Len(marks) : <<marks[i].year, marks[i].month>> \in months

\* C20: day ticks. A day of the window gets a day tick if and only if it is
\* the 1st of a month, is today, or has a day of month divisible by 5; every
\* tick belongs to a day of the window and no day has two; exactly one tick
\* has isToday = true, and every month start in the window has a tick with
\* isMonthStart = true.
C20_DayTicks ==
    LET ticks == dayMarkers
        days == LoopDates(windowStart, windowEnd, 1)
        tickAngles == {ticks[i].angle : i \in 1..Len(ticks)}
        dayAngles == {dateToAngle(days[k]) : k \in 1..Len(days)}
    IN /\ \A k \in 1..Len(days) :
             dateToAngle(days[k]) \in tickAngles
                <=> \/ getDate(days[k]) = 1
                    \/ DayOf(days[k]) = DayOf(today)
                    \/ getDate(days[k]) % 5 = 0
       /\ tickAngles \subseteq dayAngles
       /\ Cardinality(tickAngles) = Len(ticks)
       /\ Cardinality({i \in 1..Len(ticks) : ticks[i].isToday}) = 1
       /\ \A k \in 1..Len(days) :
             getDate(days[k]) = 1
                => \E i \in 1..Len(ticks) :
                      /\ ticks[i].angle = dateToAngle(days[k])
                      /\ ticks[i].isMonthStart

\* C20 witness: today is the 13th of a month; it has a tick, flagged isToday
\* and not isMonthStart, the 12th and the 14th have none, and the 1st of the
\* month has one flagged isMonthStart
C20_Witness ==
    LET ticks == dayMarkers
        tickAngles == {ticks[i].angle : i \in 1..Len(ticks)}
    IN /\ getDate(today) = 13
       /\ \E i \in 1..Len(ticks) :
             ticks[i].angle = 0 /\ ticks[i].isToday /\ ~ticks[i].isMonthStart
       /\ dateToAngle(today - TicksPerDay) \notin tickAngles
       /\ dateToAngle(today + TicksPerDay) \notin tickAngles
       /\ \E i \in 1..Len(ticks) :
             /\ ticks[i].angle = dateToAngle(today - 12 * TicksPerDay)
             /\ ticks[i].isMonthStart /\ ~ticks[i].isToday

\* ISO 8601, stated with 4 January: the day number of the Monday of the week
\* of a day, the Monday of week 1 of a year (the week that holds 4 January),
\* the ISO year of a day and its ISO week number
MondayOf(day) == day - ((day + 3) % 7)
WeekOneMonday(y) == MondayOf(DaysFromCivil(y, 1, 4))
IsoYear(day) ==
    LET y == CivilFromDays(day).y
    IN CHOOSE iy \in {y - 1, y, y + 1} :
          WeekOneMonday(iy) <= MondayOf(day) /\ MondayOf(day) < WeekOneMonday(iy + 1)
IsoWeek(day) == (MondayOf(day) - WeekOneMonday(IsoYear(day))) \div 7 + 1

\* the Mondays the week bands are due on: from the Monday on or before the
\* window start, every 7 days, as long as the Monday is not after the window end
DueMondays ==
    LET first == CHOOSE m \in {windowStart - k * TicksPerDay : k \in 0..6} :
                    DayOf(m) = MondayOf(DayOf(m))
    IN LoopDates(first, windowEnd, 7)

\* C21: week bands. The first band starts on the Monday on or before the
\* window start, every later band starts exactly 7 days after the previous
\* one (so on a Monday), bands are emitted as long as the band start is not
\* after the window end, each band spans its Monday through the following
\* Sunday (start + 6 days), and isOdd is true exactly when the ISO week
\* number of the band is odd.
C21_WeekBands ==
    LET bands == weekMarkers
        mondays == DueMondays
    IN /\ Len(bands) = Len(mondays)
       /\ mondays[Len(mondays)] <= windowEnd
       /\ mondays[Len(mondays)] + 7 * TicksPerDay > windowEnd
       /\ \A i \in 1..Len(bands) :
             /\ getDay(mondays[i]) = 1
             /\ bands[i].startAngle = dateToAngle(mondays[i])
             /\ bands[i].endAngle = dateToAngle(mondays[i] + 6 * TicksPerDay)
             /\ getDay(mondays[i] + 6 * TicksPerDay) = 0
             /\ bands[i].isOdd <=> IsoWeek(DayOf(mondays[i])) % 2 = 1
       /\ \A i \in 1..(Len(bands) - 1) :
             FULL_VIEW_DAYS * (bands[i + 1].startAngle - bands[i].startAngle)
                = 7 * Deg(360)

\* C21 witness: the window starts on a Monday afternoon, and so does the first
\* band; the 53rd and last band starts on the last day of the window; a band
\* of week 53 is there and is odd
C21_Witness ==
    LET bands == weekMarkers
    IN /\ getDay(windowStart) = 1 /\ TimeWithinDay(windowStart) # 0
       /\ bands[1].startAngle = dateToAngle(windowStart)
       /\ Len(bands) = 53
       /\ bands[Len(bands)].startAngle = dateToAngle(windowEnd)
       /\ \E i \in 1..Len(bands) : bands[i].weekNum = 53 /\ bands[i].isOdd

\* the dates today + j * MaxTickDays days: over the days of construction they
\* are all the dates of some 29 years
SampledDates == {today + j * MaxTickDays * TicksPerDay : j \in 0..MaxWeekPeriods}

\* C22: getWeekNumber returns the ISO 8601 week number of every calendar
\* date: it is in 1..53, the same for the seven days Monday..Sunday of a week,
\* the number of the week of that week's Thursday counted from 1 January of
\* the Thursday's year, and a date of late December or early January that
\* belongs to the adjacent ISO year gets that year's number (1, 52 or 53).
C22_IsoWeekNumber ==
    \A date \in SampledDates :
       LET w == getWeekNumber(date)
           monday == MondayOf(DayOf(date))
           thursday == monday + 3
       IN /\ w \in 1..53
          /\ \A k \in 0..6 : getWeekNumber((monday + k) * TicksPerDay) = w
          /\ w = IsoWeek(DayOf(date))
          /\ w = (thursday - DaysFromCivil(CivilFromDays(thursday).y, 1, 1)) \div 7 + 1
          /\ CivilFromDays(thursday).y > getFullYear(date) => w = 1
          /\ CivilFromDays(thursday).y < getFullYear(date) => w \in {52, 53}

\* C22 witness: today is 1 January 2021, a Friday in week 53 of 2020; the
\* Monday after it is in week 1, and 30 December 2019 is in week 1 of 2020
C22_Witness ==
    /\ DayOf(today) = DaysFromCivil(2021, 1, 1)
    /\ getDay(today) = 5 /\ getWeekNumber(today) = 53
    /\ getWeekNumber(today + 3 * TicksPerDay) = 1
    /\ getWeekNumber(Day(2019, 12, 30)) = 1
    /\ today \in SampledDates

\* an angle normalized to [0, 360) lies strictly between 90 and 270
InBottomHalf(angle) ==
    angle % Deg(360) > Deg(90) /\ angle % Deg(360) < Deg(270)

\* C23: upright month labels. The label rotation of a month tick is its raw
\* angle unless the angle normalized to [0, 360) lies strictly between 90 and
\* 270, in which case it is the raw angle + 180; the label rotation
\* normalized to [0, 360) never lies strictly between 90 and 270.
C23_UprightLabels ==
    LET marks == monthMarkers
    IN \A i \in 1..Len(marks) :
          /\ marks[i].rotation =
                IF InBottomHalf(marks[i].angle)
                THEN marks[i].angle + Deg(180) ELSE marks[i].angle
          /\ ~InBottomHalf(marks[i].rotation)

\* C23 witness: one label at a negative and one at a positive angle of the
\* bottom half are turned by 180 degrees, and a label of the top half is not
C23_Witness ==
    LET marks == monthMarkers
    IN \E i, j, k \in 1..Len(marks) :
          /\ marks[i].angle < -Deg(90) /\ marks[i].rotation = marks[i].angle + Deg(180)
          /\ marks[j].angle > Deg(90) /\ marks[j].rotation = marks[j].angle + Deg(180)
          /\ Abs(marks[k].angle) < Deg(90) /\ marks[k].rotation = marks[k].angle

\* a point lies in a viewBox
InViewBox(box, point) ==
    /\ box.x <= point.x /\ point.x <= box.x + box.width
    /\ box.y <= point.y /\ point.y <= box.y + box.height

\* C24: viewport. The full viewBox is the square (-40, -40, 680, 680) and
\* holds the whole circle of the month-label radius around the center
\* (300, 300); the compact viewBox is a square of side 680 / 1.25 whose
\* horizontal midpoint is the wheel center x = 300 and whose vertical range
\* holds the top end of the today marker and the month-label position at
\* angle 0.
C24_Viewport ==
    LET box == viewBox
        todayTop == polarToCartesian(todayMarker.angle, OUTER_RADIUS + 5)
        labelTop == polarToCartesian(0, MONTH_LABEL_RADIUS)
    IN /\ ~isMobileView =>
             /\ box = [x |-> -40, y |-> -40, width |-> 680, height |-> 680]
             /\ CENTER_X = 300 /\ CENTER_Y = 300
             /\ \A angle \in {0, Deg(90), Deg(180), Deg(270)} :
                   InViewBox(box, polarToCartesian(angle, MONTH_LABEL_RADIUS))
       /\ isMobileView =>
             /\ box.width = box.height
             /\ 5 * box.width = 4 * 680
             /\ 2 * box.x + box.width = 2 * 300
             /\ box.y <= todayTop.y /\ todayTop.y <= box.y + box.height
             /\ box.y <= labelTop.y /\ labelTop.y <= box.y + box.height

\* C24 witness: on a compact viewport the viewBox is (28, -20, 544, 544), the
\* today marker ends at y = 15 and the month label of angle 0 is at y = -10
C24_Witness ==
    /\ isMobileView
    /\ viewBox = [x |-> 28, y |-> -20, width |-> 544, height |-> 544]
    /\ polarToCartesian(todayMarker.angle, OUTER_RADIUS + 5).y = 15
    /\ polarToCartesian(0, MONTH_LABEL_RADIUS).y = -10

\* C25: a layout pass leaves its inputs unchanged. After the sorted
\* activities, the scope configs and the sorted layers of the ring
\* backgrounds have been computed (the lane assignment and the arcs only read
\* them), the activities array has the same elements in the same order, the
\* layers array too, with every ringIndex, and scopeFilters is only read.
C25_InputsUnchanged ==
    LET pass == LayoutPass
    IN /\ pass.heap["activities"] = activities
       /\ pass.heap["layers"] = layers
       /\ pass.heap[pass.sortedActivities] = sortedActivities
       /\ pass.heap[pass.sortedLayers] = SortByRing(layers)
       /\ [i \in 1..Len(pass.heap["scopeConfigs"]) |->
              [id |-> pass.heap["scopeConfigs"][i].id,
               ringIndex |-> pass.heap["scopeConfigs"][i].ringIndex]] = scopeConfigs

\* C25 witness: neither the layers nor the activities are passed in sorted
\* order; the pass sorts its copies and the inputs are as they were
C25_Witness ==
    LET pass == LayoutPass
    IN /\ pass.heap[pass.sortedLayers] # layers
       /\ pass.heap[pass.sortedActivities] # activities
       /\ Len(pass.heap[pass.sortedActivities]) = Len(activities)
       /\ pass.heap["layers"] = layers
       /\ pass.heap["activities"] = activities

\* the lane assignment of the activities of one layer when the input holds
\* no activity that lies entirely outside the window
AssignmentWithoutOutside(scopeConfig) ==
    LET inWindow == SelectSeq(filteredActivities,
                              LAMBDA a : ~EntirelyOutsideWindow(a))
        scopeActivities == SelectSeq(SortActivities(inWindow),
                                     LAMBDA a : a.scope = scopeConfig.id)
    IN AssignScope(scopeConfig, scopeActivities, 1,
                   [assigned |-> << >>, layerMap |-> << >>]).layerMap

\* C26: activities entirely outside the year window do not influence the
\* layout of the others: the sub-lane of every in-window activity is the one
\* it gets when the out-of-window activities of its layer are not in the
\* input.
C26_OutsideHasNoInfluence ==
    LET layerMap == activityLayers
    IN \A c \in 1..Len(scopeConfigs) :
          LET without == AssignmentWithoutOutside(scopeConfigs[c])
          IN \A id \in DOMAIN without :
                /\ id \in DOMAIN layerMap
                /\ layerMap[id].subLayer = without[id].subLayer

\* C27: week band shading alternates. For every value of today any two
\* consecutive week bands have opposite isOdd values, also in windows that
\* cross a year boundary.
C27_ShadingAlternates ==
    LET bands == weekMarkers
    IN \A i \in 1..(Len(bands) - 1) : bands[i].isOdd # bands[i + 1].isOdd

\* C28: month labels never coincide. For every value of today at most 12
\* month ticks are emitted, no two of them are for the same month of the
\* year, and the anchor date of every tick (the 15th) lies inside
\* [windowStart, windowEnd], so that its angle lies within [-180, 180]
\* degrees.
C28_MonthLabelsDistinct ==
    LET marks == monthMarkers
    IN /\ Len(marks) <= 12
       /\ \A i, j \in 1..Len(marks) : i # j => marks[i].month # marks[j].month
       /\ \A i \in 1..Len(marks) :
             LET anchor == MakeDate(marks[i].year, marks[i].month + 1, 15, 0, 0)
             IN /\ windowStart <= anchor
                /\ anchor <= windowEnd
                /\ -Deg(180) <= marks[i].angle
                /\ marks[i].angle <= Deg(180)

\* ringIndex of the layer with this id in an array of layers
RingIndexOf(ls, id) == ls[IndexOfLayer(ls, id)].ringIndex

\* C29: layer ring indices stay unique. Starting from layers with pairwise
\* distinct ringIndex, after any sequence of add layer, move layer up, move
\* layer down, confirmed layer deletion and drag-and-drop reorder, the
\* ringIndex values of the layers are pairwise distinct.
C29_RingIndicesUnique ==
    \A i, j \in 1..Len(layers) :
        i # j => layers[i].ringIndex # layers[j].ringIndex

\* a layer was added up to the bound, the rings were reordered without
\* reordering the array, and the indices have a gap
C29_Witness ==
    /\ Len(layers) = MaxLayers
    /\ \E i \in 1..Len(layers) : layers[i].id = "N1"
    /\ layers # sortedLayers
    /\ maxRingIndex >= Len(layers)

\* C30: deleting a layer preserves the ring order of the others. After
\* confirmDeleteLayer any two remaining layers are in the same relative
\* inner-to-outer order (by ringIndex) as before the deletion, also when
\* layers were reordered with move up / move down before.
C30_DeleteKeepsRingOrder ==
    [][Len(layers') < Len(layers) =>
          \A i, j \in 1..Len(layers') :
              (RingIndexOf(layers', layers'[i].id)
                  < RingIndexOf(layers', layers'[j].id))
              <=> (RingIndexOf(layers, layers'[i].id)
                      < RingIndexOf(layers, layers'[j].id))]_vars

===========================================================================
